---- MODULE Spec2Model ----
(***************************************************************************)
(* Model of the Noko reporting automation:                                 *)
(*   - generate-reports.js (latest revision): the geekbot entry classifier *)
(*     categorizeEntriesForGeekbot and the renderer generateRawDataForLLM, *)
(*     with the file loop over sources that may be unusable (SpecInput);   *)
(*   - scripts/llm-geekbot.sh: the flow that feeds the rendered text to    *)
(*     the Claude CLI under a polling timeout, with a Gemini fallback;     *)
(*   - scripts/team-analysis.js: the team aggregator, from the compilation *)
(*     of the script by node to the reports main() prints.                 *)
(*                                                                         *)
(* Strings the code inspects (project names, tag names, section keys) are  *)
(* sequences of UTF-16 code units, so that includes(), toLowerCase(),      *)
(* replace(), trim(), split() and the default sort() are computed as       *)
(* JavaScript computes them.  Dates are day numbers: an ISO date string    *)
(* YYYY-MM-DD compares lexicographically exactly as its day number does.   *)
(***************************************************************************)
EXTENDS Integers, Sequences, FiniteSets, Bags, TLC

(***************************************************************************)
(* Bounds of the model                                                     *)
(***************************************************************************)
MaxEntries == 2      \* entries on disk, over all snapshot files
MaxDays == 2         \* largest "days back" argument tried
Today == 10          \* day number of the run date

(***************************************************************************)
(* JavaScript string primitives on code-unit sequences                     *)
(***************************************************************************)
SPACE == 32

ToLowerCase(s) == [i \in DOMAIN s |-> IF s[i] \in 65..90 THEN s[i] + 32 ELSE s[i]]

\* s.includes(t)
Includes(s, t) ==
    \E i \in 0..(Len(s) - Len(t)) : SubSeq(s, i + 1, i + Len(t)) = t

\* s.startsWith(t)
StartsWith(s, t) == Len(s) >= Len(t) /\ SubSeq(s, 1, Len(t)) = t

RECURSIVE TrimStart(_)
TrimStart(s) ==
    IF s # <<>> /\ Head(s) = SPACE THEN TrimStart(Tail(s)) ELSE s

RECURSIVE TrimEnd(_)
TrimEnd(s) ==
    IF s # <<>> /\ s[Len(s)] = SPACE THEN TrimEnd(SubSeq(s, 1, Len(s) - 1)) ELSE s

\* s.trim()
Trim(s) == TrimEnd(TrimStart(s))

\* s.split(' ')[0]
RECURSIVE FirstWord(_)
FirstWord(s) ==
    IF s = <<>> \/ Head(s) = SPACE THEN <<>> ELSE <<Head(s)>> \o FirstWord(Tail(s))

\* a < b in the order of Array.prototype.sort() without a comparator:
\* code unit by code unit, a proper prefix first
RECURSIVE CodeUnitLess(_, _)
CodeUnitLess(a, b) ==
    IF b = <<>> THEN FALSE
    ELSE IF a = <<>> THEN TRUE
    ELSE IF Head(a) # Head(b) THEN Head(a) < Head(b)
    ELSE CodeUnitLess(Tail(a), Tail(b))

\* Object.keys(o).sort() for the key set S
RECURSIVE SortKeys(_)
SortKeys(S) ==
    IF S = {} THEN <<>>
    ELSE LET m == CHOOSE x \in S : \A y \in S \ {x} : CodeUnitLess(x, y)
         IN  <<m>> \o SortKeys(S \ {m})

(***************************************************************************)
(* String literals of the program                                          *)
(***************************************************************************)
LSM_MARK == <<91, 76, 83, 77, 93>>                          \* "[LSM]"
STR_internal == <<105, 110, 116, 101, 114, 110, 97, 108>>   \* "internal"
STR_sales == <<115, 97, 108, 101, 115>>                     \* "sales"
STR_dh == <<100, 104>>                                      \* "dh"
STR_dartmouth == <<100, 97, 114, 116, 109, 111, 117, 116, 104>> \* "dartmouth"
STR_govhub == <<103, 111, 118, 104, 117, 98>>               \* "govhub"
STR_georgia == <<103, 101, 111, 114, 103, 105, 97>>         \* "georgia"
STR_mjff == <<109, 106, 102, 102>>                          \* "mjff"
HDR_LSM == <<76, 83, 77>>                                   \* "LSM"
HDR_Internal == <<73, 110, 116, 101, 114, 110, 97, 108>>    \* "Internal"
HDR_Uncategorized ==
    <<85, 110, 99, 97, 116, 101, 103, 111, 114, 105, 122, 101, 100>> \* "Uncategorized"

(***************************************************************************)
(* CONFIG                                                                  *)
(***************************************************************************)
\* CONFIG.specialBuckets
specialBuckets ==
    [lsm |-> 560795, internal |-> 17045, drainpipe |-> 687916, lullabotdotcom |-> 550434]

\* CONFIG.projects: the project directories, here "CATIC" and "DH"
CONFIG_projects == << <<67, 65, 84, 73, 67>>, <<68, 72>> >>

\* CONFIG.projectMappings with PROJECT_MAPPINGS unset
projectToCategory == [p \in {} |-> <<>>]
hasCustomMappings == DOMAIN projectToCategory # {}

\* parseInt(process.env.NOKO_USER_ID) || 8372
USER_ID == 8372


(***************************************************************************)
(* Time entries.  A project that is absent (entry.project undefined) is    *)
(* NoProject: its id equals no bucket id and its name is the empty string. *)
(* tags absent and tags empty are both <<>> (the code reads tags || []).   *)
(***************************************************************************)
NoProject == [id |-> 0, name |-> <<>>]

\* "[LSM] CATIC web"
P_Catic == [id |-> 701450,
            name |-> <<91, 76, 83, 77, 93, 32, 67, 65, 84, 73, 67, 32, 119, 101, 98>>]
\* "[LSM] Dartmouth"
P_Dartmouth == [id |-> 701708,
                name |-> <<91, 76, 83, 77, 93, 32, 68, 97, 114, 116, 109, 111, 117, 116, 104>>]
\* "[LSM] acme site"
P_Acme == [id |-> 701999,
           name |-> <<91, 76, 83, 77, 93, 32, 97, 99, 109, 101, 32, 115, 105, 116, 101>>]
\* the main LSM bucket, "LSM General"
P_LsmBucket == [id |-> 560795, name |-> <<76, 83, 77, 32, 71, 101, 110, 101, 114, 97, 108>>]
\* "Drainpipe"
P_Drainpipe == [id |-> 687916, name |-> <<68, 114, 97, 105, 110, 112, 105, 112, 101>>]
\* the Internal bucket, "Lullabot"
P_InternalBucket == [id |-> 17045, name |-> <<76, 117, 108, 108, 97, 98, 111, 116>>]
\* "[LSM] dh portal"
P_DhPortal == [id |-> 701709,
               name |-> <<91, 76, 83, 77, 93, 32, 100, 104, 32, 112, 111, 114, 116, 97, 108>>]
\* the Lullabotdotcom bucket, "Lullabot.com"
P_Lullabotdotcom ==
    [id |-> 550434, name |-> <<76, 117, 108, 108, 97, 98, 111, 116, 46, 99, 111, 109>>]
\* "Zeta"
P_Zeta == [id |-> 900001, name |-> <<90, 101, 116, 97>>]
\* "beta"
P_Beta == [id |-> 900002, name |-> <<98, 101, 116, 97>>]

TAG_Internal == [name |-> <<73, 110, 116, 101, 114, 110, 97, 108>>]   \* "Internal"
TAG_presales == [name |-> <<112, 114, 101, 115, 97, 108, 101, 115>>]  \* "presales"
TAG_dev == [name |-> <<100, 101, 118>>]                                \* "dev"

U_Me == [id |-> 8372, first_name |-> "Jerad", last_name |-> <<66, 105, 116, 110, 101, 114>>]
U_Other == [id |-> 9001, first_name |-> "Sam", last_name |-> <<82, 111, 101>>]

Entry(i, d, m, u, p, t) ==
    [id |-> i, date |-> d, minutes |-> m, description |-> i, user |-> u,
     project |-> p, tags |-> t]

\* The entries the Noko API can return in this model.  Dates run from the
\* earliest cutoff to the day after the run date.
EntryPool ==
    { Entry(1, Today, 45, U_Me, P_Catic, <<>>),
      Entry(2, Today - 1, 120, U_Me, P_Dartmouth, <<TAG_Internal>>),
      Entry(3, Today - MaxDays, 125, U_Me, P_Acme, <<>>),
      Entry(4, Today, 30, U_Me, P_LsmBucket, <<TAG_dev, TAG_presales>>),
      Entry(5, Today - 1, 60, U_Me, P_Drainpipe, <<TAG_dev>>),
      Entry(6, Today, 15, U_Me, P_InternalBucket, <<>>),
      Entry(7, Today, 0, U_Me, P_Zeta, <<>>),
      Entry(8, Today - 1, 90, U_Me, P_Beta, <<>>),
      Entry(9, Today + 1, 20, U_Me, P_Catic, <<>>),
      Entry(10, Today, 40, U_Me, NoProject, <<>>),
      Entry(11, Today, 50, U_Other, P_Catic, <<>>),
      Entry(12, Today, 75, U_Me, P_DhPortal, <<>>),
      Entry(13, Today - 2, 35, U_Me, P_Lullabotdotcom, <<>>) }

(***************************************************************************)
(* formatTime                                                              *)
(***************************************************************************)
\* formatTime with the test of the minutes ahead of the test of the hours
formatTime_minsFirst(minutes) ==
    LET hours == minutes \div 60
        mins == minutes % 60
    IN  IF mins = 0 THEN <<hours, "h">>
        ELSE IF hours = 0 THEN <<mins, "m">>
        ELSE <<hours, "h", mins, "m">>

formatTime(minutes) ==
    LET hours == minutes \div 60
        mins == minutes % 60
    IN  IF hours = 0 THEN <<mins, "m">>
        ELSE IF mins = 0 THEN <<hours, "h">>
        ELSE <<hours, "h", mins, "m">>

(***************************************************************************)
(* categorizeEntriesForGeekbot                                             *)
(***************************************************************************)
\* tags.some(tag => name contains 'internal' or 'sales', lower-cased)
hasInternalTag(entry) ==
    \E i \in DOMAIN entry.tags :
        \/ Includes(ToLowerCase(entry.tags[i].name), STR_internal)
        \/ Includes(ToLowerCase(entry.tags[i].name), STR_sales)

\* projectName.replace(/^\[LSM\]\s*/, '').trim()
cleanProjectName(projectName) ==
    Trim(IF StartsWith(projectName, LSM_MARK)
         THEN TrimStart(SubSeq(projectName, Len(LSM_MARK) + 1, Len(projectName)))
         ELSE projectName)

\* projectMatches without the toLowerCase() calls
projectMatches_caseSensitive(proj, cleanName) ==
    \/ Includes(cleanName, proj)
    \/ Includes(proj, cleanName)
    \/ proj = STR_dh /\ Includes(cleanName, STR_dartmouth)
    \/ proj = STR_govhub /\ Includes(cleanName, STR_georgia)
    \/ proj = STR_mjff /\ Includes(cleanName, STR_mjff)

\* the predicate handed to CONFIG.projects.find
projectMatches(proj, cleanName) ==
    LET projLower == ToLowerCase(proj)
        nameLower == ToLowerCase(cleanName)
    IN  \/ Includes(nameLower, projLower)
        \/ Includes(projLower, nameLower)
        \/ projLower = STR_dh /\ Includes(nameLower, STR_dartmouth)
        \/ projLower = STR_govhub /\ Includes(nameLower, STR_georgia)
        \/ projLower = STR_mjff /\ Includes(nameLower, STR_mjff)

\* CONFIG.projects.find(...): the first match, <<>> for undefined
matchedProject(cleanName) ==
    LET hits == {i \in DOMAIN CONFIG_projects : projectMatches(CONFIG_projects[i], cleanName)}
    IN  IF hits = {} THEN <<>>
        ELSE CONFIG_projects[CHOOSE i \in hits : \A j \in hits : i <= j]

\* the category key of an entry whose project name contains "[LSM]"
categoryKey(projectName) ==
    LET clean == cleanProjectName(projectName)
        matched == matchedProject(clean)
    IN  IF matched # <<>> /\ hasCustomMappings
        THEN IF matched \in DOMAIN projectToCategory /\ projectToCategory[matched] # <<>>
             THEN projectToCategory[matched] ELSE matched
        ELSE IF matched # <<>> THEN matched ELSE FirstWord(clean)

\* classifyEntry with the department test moved ahead of the Internal test
classifyEntry_lsmBeforeInternal(entry) ==
    IF Includes(entry.project.name, LSM_MARK)
    THEN [bucket |-> "clientProjects", key |-> categoryKey(entry.project.name)]
    ELSE IF \/ entry.project.id = specialBuckets.lsm
            \/ entry.project.id = specialBuckets.drainpipe
            \/ entry.project.id = specialBuckets.lullabotdotcom
    THEN [bucket |-> "lsm", key |-> <<>>]
    ELSE IF hasInternalTag(entry) \/ entry.project.id = specialBuckets.internal
    THEN [bucket |-> "internal", key |-> <<>>]
    ELSE [bucket |-> "other", key |-> <<>>]

\* The body of userEntries.forEach: the bucket the entry is pushed to.
classifyEntry(entry) ==
    IF Includes(entry.project.name, LSM_MARK)
    THEN [bucket |-> "clientProjects", key |-> categoryKey(entry.project.name)]
    ELSE IF hasInternalTag(entry) \/ entry.project.id = specialBuckets.internal
    THEN [bucket |-> "internal", key |-> <<>>]
    ELSE IF \/ entry.project.id = specialBuckets.lsm
            \/ entry.project.id = specialBuckets.drainpipe
            \/ entry.project.id = specialBuckets.lullabotdotcom
    THEN [bucket |-> "lsm", key |-> <<>>]
    ELSE [bucket |-> "other", key |-> <<>>]

EmptyCategories ==
    [clientProjects |-> [k \in {} |-> <<>>], lsm |-> <<>>, internal |-> <<>>, other |-> <<>>]

\* pushEntry that keeps no entry the first three rules leave over
pushEntry_dropOther(cats, entry) ==
    LET c == classifyEntry(entry)
    IN  CASE c.bucket = "clientProjects" ->
               [cats EXCEPT !.clientProjects =
                   IF c.key \in DOMAIN @
                   THEN [@ EXCEPT ![c.key] = Append(@, entry)]
                   ELSE @ @@ (c.key :> <<entry>>)]
          [] c.bucket = "internal" -> [cats EXCEPT !.internal = Append(@, entry)]
          [] c.bucket = "lsm" -> [cats EXCEPT !.lsm = Append(@, entry)]
          [] OTHER -> cats

\* one iteration of the forEach
pushEntry(cats, entry) ==
    LET c == classifyEntry(entry)
    IN  CASE c.bucket = "clientProjects" ->
               [cats EXCEPT !.clientProjects =
                   IF c.key \in DOMAIN @
                   THEN [@ EXCEPT ![c.key] = Append(@, entry)]
                   ELSE @ @@ (c.key :> <<entry>>)]
          [] c.bucket = "internal" -> [cats EXCEPT !.internal = Append(@, entry)]
          [] c.bucket = "lsm" -> [cats EXCEPT !.lsm = Append(@, entry)]
          [] OTHER -> [cats EXCEPT !.other = Append(@, entry)]

RECURSIVE forEachEntry(_, _)
forEachEntry(cats, entries) ==
    IF entries = <<>> THEN cats
    ELSE forEachEntry(pushEntry(cats, Head(entries)), Tail(entries))

\* categorizeEntriesForGeekbot without the filter on entry.user.id
categorizeEntriesForGeekbot_allUsers(entries, userId) ==
    forEachEntry(EmptyCategories, entries)

\* categorizeEntriesForGeekbot without the return after the Internal push:
\* an Internal entry of a department bucket is pushed to lsm as well
categorizeEntriesForGeekbot_noReturn(entries, userId) ==
    LET userEntries == SelectSeq(entries, LAMBDA e : e.user.id = userId)
        cats == forEachEntry(EmptyCategories, userEntries)
    IN  [cats EXCEPT !.lsm =
            SelectSeq(userEntries, LAMBDA e :
                /\ ~Includes(e.project.name, LSM_MARK)
                /\ e.project.id \in {specialBuckets.lsm, specialBuckets.drainpipe,
                                     specialBuckets.lullabotdotcom})]

categorizeEntriesForGeekbot(entries, userId) ==
    LET userEntries == SelectSeq(entries, LAMBDA e : e.user.id = userId)
    IN  forEachEntry(EmptyCategories, userEntries)


(***************************************************************************)
(* filterLsmEntries                                                        *)
(***************************************************************************)
\* filterLsmEntries returning the combined list, repeated ids kept
filterLsmEntries_noUnique(entries) ==
    SelectSeq(entries, LAMBDA e : Includes(e.project.name, LSM_MARK))
        \o SelectSeq(entries, LAMBDA e :
               ~Includes(e.project.name, LSM_MARK) /\ ~hasInternalTag(e))

filterLsmEntries(entries) ==
    LET lsmByProjectName ==
            SelectSeq(entries, LAMBDA e : Includes(e.project.name, LSM_MARK))
        lsmByExclusion ==
            SelectSeq(entries, LAMBDA e :
                IF Includes(e.project.name, LSM_MARK) THEN FALSE ELSE ~hasInternalTag(e))
        allLsmEntries == lsmByProjectName \o lsmByExclusion
        \* self.findIndex(e => e.id === entry.id)
        findIndex(id) ==
            CHOOSE i \in DOMAIN allLsmEntries :
                /\ allLsmEntries[i].id = id
                /\ \A j \in DOMAIN allLsmEntries : allLsmEntries[j].id = id => i <= j
        keep == {i \in DOMAIN allLsmEntries : i = findIndex(allLsmEntries[i].id)}
        RECURSIVE pick(_)
        pick(i) ==
            IF i > Len(allLsmEntries) THEN <<>>
            ELSE (IF i \in keep THEN <<allLsmEntries[i]>> ELSE <<>>) \o pick(i + 1)
    IN  pick(1)

(***************************************************************************)
(* generateRawDataForLLM.  rawData is the text it builds, line by line:    *)
(* a header line "\n=== key ===" or an entry line                          *)
(* "<time> - <first> <initial>.: <description> (<date>)".                  *)
(***************************************************************************)
headerLine(key) ==
    [kind |-> "header", key |-> key, time |-> <<>>, who |-> <<>>, description |-> 0, date |-> 0]

entryLine(entry) ==
    [kind |-> "entry", key |-> <<>>, time |-> formatTime(entry.minutes),
     who |-> <<entry.user.first_name, Head(entry.user.last_name)>>,
     description |-> entry.description, date |-> entry.date]

\* entries.forEach(entry => rawData += ...)
entryLines(entries) == [i \in DOMAIN entries |-> entryLine(entries[i])]

section(key, entries) == <<headerLine(key)>> \o entryLines(entries)

\* the sections of the keys of a grouping, in the order of the key list
RECURSIVE sectionsOf(_, _)
sectionsOf(keys, groups) ==
    IF keys = <<>> THEN <<>>
    ELSE section(Head(keys), groups[Head(keys)]) \o sectionsOf(Tail(keys), groups)

\* the concatenation of the snapshot files, in read order
RECURSIVE concatFiles(_)
concatFiles(fileList) ==
    IF fileList = <<>> THEN <<>> ELSE Head(fileList) \o concatFiles(Tail(fileList))

\* inDateRange with the cutoff day itself left out
inDateRange_exclusive(entry, today, daysBack) ==
    LET cutoffDate == today - daysBack
    IN  entry.date > cutoffDate /\ entry.date <= today

\* the date filter: cutoffDate = today - days, both bounds inclusive
inDateRange(entry, today, daysBack) ==
    LET cutoffDate == today - daysBack
    IN  entry.date >= cutoffDate /\ entry.date <= today

\* entry.project?.name || 'Uncategorized'
otherGroupName(entry) ==
    IF entry.project.name = <<>> THEN HDR_Uncategorized ELSE entry.project.name

\* otherGrouped: the entries under their group name, each group in list order
groupOther(entries) ==
    [k \in {otherGroupName(entries[i]) : i \in DOMAIN entries} |->
        SelectSeq(entries, LAMBDA e : otherGroupName(e) = k)]

\* renderGeekbot where excluded Internal entries fall through to Other
renderGeekbot_fallThrough(cats, exclude) ==
    LET clientPart == sectionsOf(SortKeys(DOMAIN cats.clientProjects), cats.clientProjects)
        lsmPart == IF cats.lsm # <<>> THEN section(HDR_LSM, cats.lsm) ELSE <<>>
        internalPart ==
            IF ~exclude /\ cats.internal # <<>>
            THEN section(HDR_Internal, cats.internal) ELSE <<>>
        otherGrouped ==
            groupOther(IF exclude THEN cats.internal \o cats.other ELSE cats.other)
        otherPart == sectionsOf(SortKeys(DOMAIN otherGrouped), otherGrouped)
    IN  clientPart \o lsmPart \o internalPart \o otherPart

\* renderGeekbot with the Internal section printed ahead of the LSM section
renderGeekbot_internalBeforeLsm(cats, exclude) ==
    LET clientPart == sectionsOf(SortKeys(DOMAIN cats.clientProjects), cats.clientProjects)
        lsmPart == IF cats.lsm # <<>> THEN section(HDR_LSM, cats.lsm) ELSE <<>>
        internalPart ==
            IF ~exclude /\ cats.internal # <<>>
            THEN section(HDR_Internal, cats.internal) ELSE <<>>
        otherGrouped == groupOther(cats.other)
        otherPart == sectionsOf(SortKeys(DOMAIN otherGrouped), otherGrouped)
    IN  clientPart \o internalPart \o lsmPart \o otherPart

\* the geekbot branch: Projects, LSM, Internal, Other
renderGeekbot(cats, exclude) ==
    LET clientPart == sectionsOf(SortKeys(DOMAIN cats.clientProjects), cats.clientProjects)
        lsmPart == IF cats.lsm # <<>> THEN section(HDR_LSM, cats.lsm) ELSE <<>>
        internalPart ==
            IF ~exclude /\ cats.internal # <<>>
            THEN section(HDR_Internal, cats.internal) ELSE <<>>
        otherGrouped == groupOther(cats.other)
        otherPart == sectionsOf(SortKeys(DOMAIN otherGrouped), otherGrouped)
    IN  clientPart \o lsmPart \o internalPart \o otherPart

\* entry.project?.name?.replace(/^\[LSM\]\s*/, '') || 'Unknown'
weeklyGroupName(entry) ==
    LET n == IF StartsWith(entry.project.name, LSM_MARK)
             THEN TrimStart(SubSeq(entry.project.name, Len(LSM_MARK) + 1,
                                   Len(entry.project.name)))
             ELSE entry.project.name
    IN  IF n = <<>> THEN <<85, 110, 107, 110, 111, 119, 110>> ELSE n

\* projectGroups: the entries under their group name, each group in list order
groupWeekly(entries) ==
    [k \in {weeklyGroupName(entries[i]) : i \in DOMAIN entries} |->
        SelectSeq(entries, LAMBDA e : weeklyGroupName(e) = k)]

\* the branch of the other report types
renderWeekly(filteredEntries) ==
    LET lsmEntries == filterLsmEntries(filteredEntries)
        userEntries == SelectSeq(lsmEntries, LAMBDA e : e.user.id = USER_ID)
        projectGroups == groupWeekly(userEntries)
    IN  sectionsOf(SortKeys(DOMAIN projectGroups), projectGroups)

\* What a noko-*.json path can be when the file loop comes to it: a JSON
\* array, a file that is gone, one that cannot be read, one that is not
\* JSON, one whose JSON is not an array; or the logs directory of its
\* project does not exist.
FileKinds == {"array", "missing", "unreadable", "invalidJSON", "notArray", "noLogsDir"}

\* a source: the state of the path and the entries written to it
Source(kind, entries) == [kind |-> kind, entries |-> entries]

\* readJsonFile returning the entries whatever the state of the file
readJsonFile_anyState(source) == [type |-> "array", value |-> source.entries]

\* readJsonFile: the parsed content; null when the file does not exist and
\* when readFileSync or JSON.parse throws
readJsonFile(source) ==
    CASE source.kind = "array" -> [type |-> "array", value |-> source.entries]
      [] source.kind = "notArray" -> [type |-> "object", value |-> <<>>]
      [] OTHER -> [type |-> "null", value |-> <<>>]

\* one pass of the file loop: what the source adds to allEntries
entriesFrom(source) ==
    IF source.kind = "noLogsDir" THEN <<>>
    ELSE LET entries == readJsonFile(source)
         IN  IF entries.type = "array" THEN entries.value ELSE <<>>

\* The run as a record of the values the function computes on its way.
generateRawDataForLLM(sources, today, daysBack, type, exclude) ==
    LET all == concatFiles([i \in DOMAIN sources |-> entriesFrom(sources[i])])
        filtered == SelectSeq(all, LAMBDA e : inDateRange(e, today, daysBack))
        cats == IF type = "geekbot" /\ all # <<>>
                THEN categorizeEntriesForGeekbot(filtered, USER_ID)
                ELSE EmptyCategories
    IN  [allEntries |-> all,
         filteredEntries |-> IF all = <<>> THEN <<>> ELSE filtered,
         categories |-> cats,
         rawData |-> IF all = <<>> THEN <<>>
                     ELSE IF type = "geekbot" THEN renderGeekbot(cats, exclude)
                     ELSE renderWeekly(filtered)]

\* console.log(text || 'No entries found')
MSG_NoEntries ==
    <<78, 111, 32, 101, 110, 116, 114, 105, 101, 115, 32, 102, 111, 117, 110, 100>>

consoleLog(rawText) ==
    IF rawText = <<>>
    THEN << [kind |-> "text", key |-> MSG_NoEntries, time |-> <<>>, who |-> <<>>,
             description |-> 0, date |-> 0] >>
    ELSE rawText


(***************************************************************************)
(* State                                                                   *)
(***************************************************************************)
VARIABLES
    files,            \* the snapshot files under <dataDir>/<project>/logs, in read order
    fileKind,         \* the state of each of these paths, one of FileKinds
    pc,               \* position of the node process: "fetching", "done"
    days,             \* the days-back argument of the run
    excludeInternal,  \* the exclude-internal argument of the run
    reportType,       \* 'geekbot' or 'weekly'
    allEntries,       \* generateRawDataForLLM: the concatenated entries
    filteredEntries,  \* generateRawDataForLLM: the entries in the date range
    categories,       \* generateRawDataForLLM: the geekbot categories
    rawData,          \* generateRawDataForLLM: the returned text
    stdout            \* what the command printed

nodeVars ==
    <<files, fileKind, pc, days, excludeInternal, reportType, allEntries, filteredEntries,
      categories, rawData, stdout>>

NumFiles == 2

\* number of entries on disk
RECURSIVE totalEntries(_)
totalEntries(fileList) ==
    IF fileList = <<>> THEN 0 ELSE Len(Head(fileList)) + totalEntries(Tail(fileList))

NodeInit ==
    /\ files = [f \in 1..NumFiles |-> <<>>]
    /\ fileKind = [f \in 1..NumFiles |-> "array"]
    /\ pc = "fetching"
    /\ days = 1
    /\ excludeInternal = FALSE
    /\ reportType = "geekbot"
    /\ allEntries = <<>>
    /\ filteredEntries = <<>>
    /\ categories = EmptyCategories
    /\ rawData = <<>>
    /\ stdout = <<>>

\* fetch-noko.sh stores an entry returned by the API in a snapshot file.
\* One API response holds an id once; the snapshots of two days cover
\* overlapping date ranges, so two files can hold the same entry.
save_data(f, e) ==
    /\ pc = "fetching"
    /\ totalEntries(files) < MaxEntries
    /\ fileKind[f] = "array"
    /\ \A i \in DOMAIN files[f] : files[f][i].id # e.id
    /\ files' = [files EXCEPT ![f] = Append(@, e)]
    /\ UNCHANGED <<fileKind, pc, days, excludeInternal, reportType, allEntries,
                   filteredEntries, categories, rawData, stdout>>

\* the sources of a run: the snapshot paths with their states
sourcesOf(fileList, kinds) == [f \in DOMAIN fileList |-> Source(kinds[f], fileList[f])]

MaxBadFiles == 1   \* sources that are not a readable JSON array

\* fetch-noko.sh stores whatever curl printed: an error object of the API,
\* or text that is not JSON (an empty or truncated response)
save_bad_response(f, kind) ==
    /\ pc = "fetching"
    /\ kind \in {"invalidJSON", "notArray"}
    /\ fileKind[f] = "array"
    /\ Cardinality({g \in DOMAIN fileKind : fileKind[g] # "array"}) < MaxBadFiles
    /\ fileKind' = [fileKind EXCEPT ![f] = kind]
    /\ files' = [files EXCEPT ![f] = <<>>]
    /\ UNCHANGED <<pc, days, excludeInternal, reportType, allEntries, filteredEntries,
                   categories, rawData, stdout>>

\* a stored snapshot is deleted or loses its read permission, or the logs
\* directory of its project is removed, before the report runs
lose_source(f, kind) ==
    /\ pc = "fetching"
    /\ kind \in {"missing", "unreadable", "noLogsDir"}
    /\ fileKind[f] = "array"
    /\ Cardinality({g \in DOMAIN fileKind : fileKind[g] # "array"}) < MaxBadFiles
    /\ fileKind' = [fileKind EXCEPT ![f] = kind]
    /\ UNCHANGED <<files, pc, days, excludeInternal, reportType, allEntries, filteredEntries,
                   categories, rawData, stdout>>

\* the run of one report command of main()
runCommand(daysBack, type, exclude) ==
    LET r == generateRawDataForLLM(sourcesOf(files, fileKind), Today, daysBack, type, exclude)
    IN  /\ pc = "fetching"
        /\ pc' = "done"
        /\ days' = daysBack
        /\ reportType' = type
        /\ excludeInternal' = exclude
        /\ allEntries' = r.allEntries
        /\ filteredEntries' = r.filteredEntries
        /\ categories' = r.categories
        /\ rawData' = r.rawData
        /\ stdout' = consoleLog(r.rawData)
        /\ UNCHANGED <<files, fileKind>>

\* node generate-reports.js clean-geekbot [days] [exclude-internal]
main_clean_geekbot(daysBack, exclude) == runCommand(daysBack, "geekbot", exclude)

\* node generate-reports.js clean-weekly
main_clean_weekly == runCommand(7, "weekly", FALSE)

(***************************************************************************)
(* llm-geekbot.sh                                                          *)
(***************************************************************************)
VARIABLES
    spc,               \* position of the script
    EXCLUDE_INTERNAL,  \* the parsed flag
    DAYS_BACK,         \* 4 on a Monday, else 2
    RAW_DATA,          \* the captured output of clean-geekbot
    COUNT,             \* the loop counter
    RESULT,            \* "" while unset or empty, else the LLM text
    qstatus,           \* $? : the exit status of the last command
    tempOutput,        \* TEMP_OUTPUT: "absent", "empty" or the text it holds
    claude,            \* the background process: "none", "running", "exited", "killed"
    claudeStatus,      \* its exit status, once it exited
    claudeOut,         \* what it wrote before it exited
    gemini,            \* command -v gemini: "unknown", "found", "missing"
    invoked,           \* the LLM tools started, in order
    polls,             \* polls of the loop that found the process running
    shown,             \* what the script echoed of its results
    clipboard,         \* what was piped to the clipboard utility
    exitCode           \* exit status of the script, -1 while it runs

shellVars ==
    <<spc, EXCLUDE_INTERNAL, DAYS_BACK, RAW_DATA, COUNT, RESULT, qstatus, tempOutput,
      claude, claudeStatus, claudeOut, gemini, invoked, polls, shown, clipboard, exitCode>>

MaxShellEntries == 1   \* entries on disk when the script runs
TIMEOUT == 10

CLAUDE_TEXT == "claude-text"
GEMINI_TEXT == "gemini-text"
FALLBACK_RESPONSE == "fallback_response"

\* how a call of copy_to_clipboard ends: the utility took the text, the
\* clipboard is disabled (return 0), or no utility is found or it fails
\* (non-zero return)
ClipboardOutcomes == {"copied", "disabled", "failed"}

ShellInit ==
    /\ spc = "start"
    /\ EXCLUDE_INTERNAL = FALSE
    /\ DAYS_BACK = 0
    /\ RAW_DATA = <<>>
    /\ COUNT = 0
    /\ RESULT = ""
    /\ qstatus = 0
    /\ tempOutput = "absent"
    /\ claude = "none"
    /\ claudeStatus = 0
    /\ claudeOut = ""
    /\ gemini = "unknown"
    /\ invoked = <<>>
    /\ polls = 0
    /\ shown = {}
    /\ clipboard = ""
    /\ exitCode = -1

\* exit N, or the abort of set -e on a command that returned N
exitWith(n) == spc' = "exit" /\ exitCode' = n

\* the token check, the argument loop, the search for claude, the weekday
sh_setup(tokenSet, exclude, claudeFound, monday) ==
    /\ spc = "start"
    /\ IF ~tokenSet \/ ~claudeFound
       THEN /\ exitWith(1)
            /\ UNCHANGED <<EXCLUDE_INTERNAL, DAYS_BACK>>
       ELSE /\ spc' = "fetch"
            /\ EXCLUDE_INTERNAL' = exclude
            /\ DAYS_BACK' = IF monday THEN 4 ELSE 2
            /\ UNCHANGED exitCode
    /\ UNCHANGED <<RAW_DATA, COUNT, RESULT, qstatus, tempOutput, claude, claudeStatus,
                   claudeOut, gemini, invoked, polls, shown, clipboard>>
    /\ UNCHANGED nodeVars

\* fetch-noko.sh both $DAYS_BACK json, storing one entry
sh_fetch_save(f, e) ==
    /\ spc = "fetch"
    /\ totalEntries(files) < MaxShellEntries
    /\ save_data(f, e)
    /\ UNCHANGED shellVars

\* fetch-noko.sh returns; a non-zero status aborts the script
sh_fetch_done(ok) ==
    /\ spc = "fetch"
    /\ IF ok THEN spc' = "generate" /\ UNCHANGED exitCode ELSE exitWith(1)
    /\ UNCHANGED <<EXCLUDE_INTERNAL, DAYS_BACK, RAW_DATA, COUNT, RESULT, qstatus, tempOutput,
                   claude, claudeStatus, claudeOut, gemini, invoked, polls, shown, clipboard>>
    /\ UNCHANGED nodeVars

\* RAW_DATA=$(node generate-reports.js clean-geekbot $DAYS_BACK [exclude-internal])
sh_generate ==
    /\ spc = "generate"
    /\ main_clean_geekbot(DAYS_BACK, EXCLUDE_INTERNAL)
    /\ RAW_DATA' = stdout'
    /\ spc' = "check_data"
    /\ UNCHANGED <<EXCLUDE_INTERNAL, DAYS_BACK, COUNT, RESULT, qstatus, tempOutput, claude,
                   claudeStatus, claudeOut, gemini, invoked, polls, shown, clipboard, exitCode>>

\* [ -z "$RAW_DATA" ] || echo "$RAW_DATA" | grep -q "No entries found"
noData(text) ==
    \/ text = <<>>
    \/ \E k \in DOMAIN text :
           text[k].kind \in {"text", "header"} /\ Includes(text[k].key, MSG_NoEntries)

\* the no-data branch: the fallback response goes to the clipboard, exit 0
sh_fallback(clip) ==
    /\ spc = "check_data"
    /\ noData(RAW_DATA)
    /\ IF clip = "failed"
       THEN exitWith(1) /\ UNCHANGED <<clipboard, shown>>
       ELSE /\ clipboard' = IF clip = "copied" THEN FALLBACK_RESPONSE ELSE clipboard
            /\ shown' = shown \cup {"fallback"}
            /\ exitWith(0)
    /\ UNCHANGED <<EXCLUDE_INTERNAL, DAYS_BACK, RAW_DATA, COUNT, RESULT, qstatus, tempOutput,
                   claude, claudeStatus, claudeOut, gemini, invoked, polls>>
    /\ UNCHANGED nodeVars

\* ( "$CLAUDE_CMD" -p "$SIMPLE_PROMPT" > "$TEMP_OUTPUT" 2>&1 ) &   COUNT=0
sh_start_claude ==
    /\ spc = "check_data"
    /\ ~noData(RAW_DATA)
    /\ tempOutput' = "empty"
    /\ claude' = "running"
    /\ invoked' = Append(invoked, "claude")
    /\ COUNT' = 0
    /\ spc' = "poll"
    /\ UNCHANGED <<EXCLUDE_INTERNAL, DAYS_BACK, RAW_DATA, RESULT, qstatus, claudeStatus,
                   claudeOut, gemini, polls, shown, clipboard, exitCode>>
    /\ UNCHANGED nodeVars

\* the Claude process ends on its own, with a status and its output written
claude_exit(status, out) ==
    /\ claude = "running"
    /\ claude' = "exited"
    /\ claudeStatus' = status
    /\ claudeOut' = out
    /\ tempOutput' = IF tempOutput = "absent" THEN "absent"
                     ELSE IF out = "" THEN "empty" ELSE out
    /\ UNCHANGED <<spc, EXCLUDE_INTERNAL, DAYS_BACK, RAW_DATA, COUNT, RESULT, qstatus, gemini,
                   invoked, polls, shown, clipboard, exitCode>>
    /\ UNCHANGED nodeVars

\* the body of the while loop up to sleep: kill -0, and on a finished
\* process wait, cat, rm, break
sh_poll ==
    /\ spc = "poll"
    /\ IF claude # "running"
       THEN IF claudeStatus # 0
            THEN \* wait returns the status of the process: set -e aborts
                 /\ exitWith(claudeStatus)
                 /\ UNCHANGED <<RESULT, tempOutput, polls>>
            ELSE /\ RESULT' = IF tempOutput \in {"absent", "empty"} THEN "" ELSE tempOutput
                 /\ tempOutput' = "absent"
                 /\ spc' = "post_check"
                 /\ UNCHANGED <<polls, exitCode>>
       ELSE /\ polls' = polls + 1
            /\ spc' = "sleep"
            /\ UNCHANGED <<RESULT, tempOutput, exitCode>>
    /\ UNCHANGED <<EXCLUDE_INTERNAL, DAYS_BACK, RAW_DATA, COUNT, qstatus, claude, claudeStatus,
                   claudeOut, gemini, invoked, shown, clipboard>>
    /\ UNCHANGED nodeVars

\* sh_sleep with the loop test written -le instead of -lt
sh_sleep_le ==
    /\ spc = "sleep"
    /\ COUNT' = COUNT + 1
    /\ spc' = IF COUNT + 1 <= TIMEOUT THEN "poll" ELSE "post_check"
    /\ UNCHANGED <<EXCLUDE_INTERNAL, DAYS_BACK, RAW_DATA, RESULT, qstatus, tempOutput, claude,
                   claudeStatus, claudeOut, gemini, invoked, polls, shown, clipboard, exitCode>>
    /\ UNCHANGED nodeVars

\* sleep 1; COUNT=$((COUNT + 1)); [ $COUNT -lt $TIMEOUT ]
sh_sleep ==
    /\ spc = "sleep"
    /\ COUNT' = COUNT + 1
    /\ spc' = IF COUNT + 1 < TIMEOUT THEN "poll" ELSE "post_check"
    /\ UNCHANGED <<EXCLUDE_INTERNAL, DAYS_BACK, RAW_DATA, RESULT, qstatus, tempOutput, claude,
                   claudeStatus, claudeOut, gemini, invoked, polls, shown, clipboard, exitCode>>
    /\ UNCHANGED nodeVars

\* if kill -0 $CLAUDE_PID: the test after the loop
sh_post_check ==
    /\ spc = "post_check"
    /\ IF claude = "running"
       THEN spc' = "kill" /\ UNCHANGED qstatus
       ELSE spc' = "result" /\ qstatus' = 0
    /\ UNCHANGED <<EXCLUDE_INTERNAL, DAYS_BACK, RAW_DATA, COUNT, RESULT, tempOutput, claude,
                   claudeStatus, claudeOut, gemini, invoked, polls, shown, clipboard, exitCode>>
    /\ UNCHANGED nodeVars

\* kill $CLAUDE_PID; rm -f "$TEMP_OUTPUT".  kill fails, and set -e aborts,
\* when the process ended since the test.
sh_kill ==
    /\ spc = "kill"
    /\ IF claude = "running"
       THEN /\ claude' = "killed"
            /\ tempOutput' = "absent"
            /\ spc' = "gemini"
            /\ UNCHANGED exitCode
       ELSE /\ exitWith(1)
            /\ UNCHANGED <<claude, tempOutput>>
    /\ UNCHANGED <<EXCLUDE_INTERNAL, DAYS_BACK, RAW_DATA, COUNT, RESULT, qstatus, claudeStatus,
                   claudeOut, gemini, invoked, polls, shown, clipboard>>
    /\ UNCHANGED nodeVars

\* command -v gemini, then RESULT=$(echo "$RAW_DATA" | gemini ... || echo "")
sh_gemini(installed, out) ==
    /\ spc = "gemini"
    /\ gemini' = IF installed THEN "found" ELSE "missing"
    /\ invoked' = IF installed THEN Append(invoked, "gemini") ELSE invoked
    /\ RESULT' = IF installed THEN out ELSE ""
    /\ qstatus' = 0
    /\ spc' = "result"
    /\ UNCHANGED <<EXCLUDE_INTERNAL, DAYS_BACK, RAW_DATA, COUNT, tempOutput, claude,
                   claudeStatus, claudeOut, polls, shown, clipboard, exitCode>>
    /\ UNCHANGED nodeVars

\* if [ $? -eq 0 ] && [ -n "$RESULT" ]: clipboard and the result, else the
\* raw data for manual processing
sh_result(clip) ==
    /\ spc = "result"
    /\ IF qstatus = 0 /\ RESULT # ""
       THEN IF clip = "failed"
            THEN exitWith(1) /\ UNCHANGED <<clipboard, shown>>
            ELSE /\ clipboard' = IF clip = "copied" THEN RESULT ELSE clipboard
                 /\ shown' = shown \cup {"formatted"}
                 /\ exitWith(0)
       ELSE /\ shown' = shown \cup {"raw"}
            /\ exitWith(0)
            /\ UNCHANGED clipboard
    /\ UNCHANGED <<EXCLUDE_INTERNAL, DAYS_BACK, RAW_DATA, COUNT, RESULT, qstatus, tempOutput,
                   claude, claudeStatus, claudeOut, gemini, invoked, polls>>
    /\ UNCHANGED nodeVars

(***************************************************************************)
(* team-analysis.js.  A run is node compiling the script and, if that      *)
(* succeeds, main(): loadTeamData, analyzeTeamData and the report of the   *)
(* command.  Hours are kept exact: totals in sixtieths of an hour (the     *)
(* minutes), the hours.csv figures in hundredths, toFixed(1) in tenths.    *)
(***************************************************************************)
VARIABLES
    logsDir,       \* whether <dataDir>/GovHub/logs exists
    teamFiles,     \* its noko-*.json files, in the order of their names
    tpc,           \* position of the node process: "idle", "done"
    teamArgs,      \* process.argv.slice(2) of the run
    teamStdout,    \* the lines the run printed with console.log
    teamStderr,    \* what node printed to stderr
    teamExit,      \* the exit status of node, -1 before the run ends
    analysis       \* the object analyzeTeamData returned, NoAnalysis if none

teamVars ==
    <<logsDir, teamFiles, tpc, teamArgs, teamStdout, teamStderr, teamExit, analysis>>

vars == <<nodeVars, shellVars, teamVars>>

MaxTeamEntries == 2   \* entries on disk, over all snapshot files

\* A date YYYY-MM-DD is [ym, d]: ym counts the months from January 2025 (the
\* first seven characters of the string), d is the day of the month.  Two
\* dates compare as their strings and as their Date objects do.
Date(ym, d) == [ym |-> ym, d |-> d]
DateLeq(a, b) == a.ym < b.ym \/ (a.ym = b.ym /\ a.d <= b.d)

\* CONFIG of team-analysis.js
sowStartDate == Date(3, 1)       \* '2025-04-01'
sowMonthlyHours == 200
sowTotalHours == 3000
\* CONFIG.actualUsageFromCSV, the hours in hundredths
actualUsageFromCSV ==
    [totalHours |-> 94775, monthsComplete |-> 4, monthsRemaining |-> 11,
     hoursRemaining |-> 205225]

\* new Date(): the run date, 2025-05-15
TeamToday == Date(4, 15)

professionalTags ==
    << \* 'professional', 'consulting', 'strategy', 'design'
       <<112, 114, 111, 102, 101, 115, 115, 105, 111, 110, 97, 108>>,
       <<99, 111, 110, 115, 117, 108, 116, 105, 110, 103>>,
       <<115, 116, 114, 97, 116, 101, 103, 121>>,
       <<100, 101, 115, 105, 103, 110>> >>

professionalKeywords ==
    << \* 'behat', 'playwright', 'migration', 'upgrade', 'drupal 11',
       \* 'govhub 2.0', 'initiative', 'acn', 'cloud next', 'storybook',
       \* 'orchard', 'auth0', 'siteimprove', 'figma'
       <<98, 101, 104, 97, 116>>,
       <<112, 108, 97, 121, 119, 114, 105, 103, 104, 116>>,
       <<109, 105, 103, 114, 97, 116, 105, 111, 110>>,
       <<117, 112, 103, 114, 97, 100, 101>>,
       <<100, 114, 117, 112, 97, 108, 32, 49, 49>>,
       <<103, 111, 118, 104, 117, 98, 32, 50, 46, 48>>,
       <<105, 110, 105, 116, 105, 97, 116, 105, 118, 101>>, <<97, 99, 110>>,
       <<99, 108, 111, 117, 100, 32, 110, 101, 120, 116>>,
       <<115, 116, 111, 114, 121, 98, 111, 111, 107>>,
       <<111, 114, 99, 104, 97, 114, 100>>, <<97, 117, 116, 104, 48>>,
       <<115, 105, 116, 101, 105, 109, 112, 114, 111, 118, 101>>,
       <<102, 105, 103, 109, 97>> >>

TAG_Design == [name |-> <<68, 101, 115, 105, 103, 110>>]   \* "Design"

U_Ann == [id |-> 7001, first_name |-> "Ann", last_name |-> <<76, 101, 101>>, email |-> "ann"]
U_Bob == [id |-> 7002, first_name |-> "Bob", last_name |-> <<82, 97, 121>>, email |-> "bob"]

\* An entry of the GovHub logs.  No description and no tags are the empty
\* string and the empty list (the code reads description || '', tags || []).
TeamEntry(i, d, m, u, t, text) ==
    [id |-> i, date |-> d, minutes |-> m, user |-> u, tags |-> t, description |-> text]

DESC_BehatTests == <<66, 101, 104, 97, 116, 32, 116, 101, 115, 116, 115>>   \* "Behat tests"
DESC_fixBug == <<102, 105, 120, 32, 98, 117, 103>>                          \* "fix bug"
DESC_Upgrade == <<85, 112, 103, 114, 97, 100, 101>>                         \* "Upgrade"

\* The entries the GovHub project can hold in this model: dated before the
\* SOW start, inside the analysed period, on the run date and after it, and
\* one of no duration.
TeamPool ==
    { TeamEntry(101, Date(3, 10), 12000, U_Ann, <<>>, DESC_BehatTests),
      TeamEntry(102, Date(4, 2), 12000, U_Bob, <<TAG_Design>>, <<>>),
      TeamEntry(103, Date(4, 15), 90, U_Ann, <<>>, DESC_fixBug),
      TeamEntry(104, Date(2, 31), 30, U_Bob, <<TAG_dev>>, DESC_fixBug),
      TeamEntry(105, Date(4, 16), 45, U_Ann, <<TAG_dev>>, DESC_Upgrade),
      TeamEntry(106, Date(4, 10), 0, U_Bob, <<>>, DESC_fixBug) }

\* The const declarations of a function body, in source order.  A name
\* declared twice in one scope is an early error: the script is rejected
\* with a SyntaxError when node compiles it, before any statement runs.
analyzeTeamData_declarations ==
    <<"analysis", "sowStart", "now", "sowStart", "sowEnd", "now", "monthsIntoSOW",
      "expectedHoursByTime">>

generateSummaryReport_declarations ==
    <<"report", "utilizationRate", "monthlyNeeded", "maintenanceHours", "professionalHours",
      "maintenancePercent", "professionalPercent", "sortedMembers", "monthlyNeeded",
      "currentMonthly">>

redeclared(declarations) ==
    {declarations[i] : i \in {k \in DOMAIN declarations :
                                 \E j \in DOMAIN declarations :
                                     j < k /\ declarations[j] = declarations[k]}}

\* what compiling scripts/team-analysis.js gives
compileScript ==
    IF redeclared(analyzeTeamData_declarations) # {}
           \/ redeclared(generateSummaryReport_declarations) # {}
    THEN "SyntaxError" ELSE "ok"

\* the end date argument when it is absent: null
NullDate == Date(0, 0)

\* isDateInRange(dateString, startDate, endDate): endDate null is now
isDateInRange(date, startDate, endDate) ==
    LET end == IF endDate = NullDate THEN TeamToday ELSE endDate
    IN  DateLeq(startDate, date) /\ DateLeq(date, end)

\* loadTeamData: [] when the directory is absent, else the in-range entries
\* of the files, file after file
RECURSIVE loadFiles(_, _, _)
loadFiles(fileList, startDate, endDate) ==
    IF fileList = <<>> THEN <<>>
    ELSE SelectSeq(Head(fileList), LAMBDA e : isDateInRange(e.date, startDate, endDate))
             \o loadFiles(Tail(fileList), startDate, endDate)

loadTeamData(startDate, endDate) ==
    IF ~logsDir THEN <<>> ELSE loadFiles(teamFiles, startDate, endDate)

\* categorizeWorkType
categorizeWorkType(entry) ==
    LET hasProTag ==
            \E i \in DOMAIN entry.tags, j \in DOMAIN professionalTags :
                Includes(ToLowerCase(entry.tags[i].name), professionalTags[j])
        hasProKeywords ==
            \E j \in DOMAIN professionalKeywords :
                Includes(ToLowerCase(entry.description), professionalKeywords[j])
    IN  IF hasProTag \/ hasProKeywords
        THEN "Professional Services" ELSE "Support & Maintenance"

WorkTypes == {"Support & Maintenance", "Professional Services"}

\* { hours: 0, entries: 0 }.  Every hours field of the analysis is kept in
\* sixtieths of an hour, the sum of the minutes, which is exact.
ZeroTally == [hours |-> 0, entries |-> 0]

\* adding one entry to a { hours, entries, workTypes } record
addToTally(t, entry, workType) ==
    [t EXCEPT !.hours = @ + entry.minutes,
              !.entries = @ + 1,
              !.workTypes[workType].hours = @ + entry.minutes,
              !.workTypes[workType].entries = @ + 1]

\* the name the entry is tallied under: first name, blank, last name
userName(entry) == <<entry.user.first_name, entry.user.last_name>>

\* entry.date.substring(0, 7)
monthKey(entry) == entry.date.ym

\* one iteration of entries.forEach in analyzeTeamData
tallyEntry(a, entry) ==
    LET workType == categorizeWorkType(entry)
        name == userName(entry)
        month == monthKey(entry)
        fresh == [hours |-> 0, entries |-> 0, workTypes |-> [w \in WorkTypes |-> ZeroTally]]
        member == IF name \in DOMAIN a.byTeamMember THEN a.byTeamMember[name]
                  ELSE fresh @@ [email |-> entry.user.email]
        ofMonth == IF month \in DOMAIN a.byMonth THEN a.byMonth[month] ELSE fresh
    IN  [a EXCEPT
            !.summary.totalHours = @ + entry.minutes,
            !.byTeamMember = (name :> addToTally(member, entry, workType)) @@ @,
            !.memberOrder = IF name \in DOMAIN a.byTeamMember THEN @ ELSE Append(@, name),
            !.byWorkType[workType].hours = @ + entry.minutes,
            !.byWorkType[workType].entries = @ + 1,
            !.byMonth = (month :> addToTally(ofMonth, entry, workType)) @@ @]

RECURSIVE tallyAll(_, _)
tallyAll(a, entries) ==
    IF entries = <<>> THEN a ELSE tallyAll(tallyEntry(a, Head(entries)), Tail(entries))

\* (num / den).toFixed(1), in tenths
toFixed1(num, den) == (20 * num + den) \div (2 * den)

\* months from the SOW start to the run date, both months counted
monthsIntoSOW == (TeamToday.ym - sowStartDate.ym) + 1

\* analyzeTeamData.  memberOrder is the insertion order of byTeamMember.
analyzeTeamData(entries) ==
    LET start == [summary |-> [totalHours |-> 0, totalEntries |-> Len(entries),
                               monthsAnalyzed |-> monthsIntoSOW],
                  byTeamMember |-> [n \in {} |-> ZeroTally],
                  memberOrder |-> <<>>,
                  byWorkType |-> [w \in WorkTypes |-> ZeroTally],
                  byMonth |-> [m \in {} |-> ZeroTally],
                  capacity |-> [logDataHours |-> 0]]
        a == tallyAll(start, entries)
        expectedHoursByTime == sowMonthlyHours * monthsIntoSOW
        csv == actualUsageFromCSV
    IN  [a EXCEPT !.capacity =
            [contractTotalHours |-> sowTotalHours,
             contractMonthlyHours |-> sowMonthlyHours,
             logDataHours |-> a.summary.totalHours,
             logDataMonths |-> a.summary.monthsAnalyzed,
             logDataUtilization |->
                 toFixed1(a.summary.totalHours * 100, 60 * expectedHoursByTime),
             actualTotalUsed |-> csv.totalHours,
             actualMonthsComplete |-> csv.monthsComplete,
             actualUtilization |-> toFixed1(csv.totalHours, sowTotalHours),
             actualMonthlyAverage |-> toFixed1(csv.totalHours, 100 * csv.monthsComplete),
             hoursRemaining |-> csv.hoursRemaining,
             monthsRemaining |-> csv.monthsRemaining,
             avgHoursNeededPerMonth |->
                 toFixed1(csv.hoursRemaining, 100 * csv.monthsRemaining),
             onTrackForSOW |-> csv.totalHours <= 100 * csv.monthsComplete * sowMonthlyHours,
             capacityStatus |->
                 IF csv.totalHours < 100 * csv.monthsComplete * sowMonthlyHours
                 THEN "under" ELSE "over"]]

\* (part / whole * 100).toFixed(1): 'NaN' when both are 0
percentOf(part, whole) ==
    IF whole = 0 THEN [nan |-> TRUE, tenths |-> 0]
    ELSE [nan |-> FALSE, tenths |-> toFixed1(part * 100, whole)]

\* Object.entries(byTeamMember).sort((a, b) => b[1].hours - a[1].hours): the
\* names by falling hours, equal hours in insertion order
RECURSIVE sortMembers(_, _)
sortMembers(names, byTeamMember) ==
    IF names = <<>> THEN <<>>
    ELSE LET top == CHOOSE i \in DOMAIN names :
                        /\ \A j \in DOMAIN names :
                               byTeamMember[names[j]].hours <= byTeamMember[names[i]].hours
                        /\ \A j \in 1..(i - 1) :
                               byTeamMember[names[j]].hours < byTeamMember[names[i]].hours
             rest == SubSeq(names, 1, top - 1) \o SubSeq(names, top + 1, Len(names))
         IN  <<names[top]>> \o sortMembers(rest, byTeamMember)

\* the member lines of both reports
memberLines(a) ==
    LET sorted == sortMembers(a.memberOrder, a.byTeamMember)
    IN  [i \in DOMAIN sorted |->
            LET data == a.byTeamMember[sorted[i]]
            IN  [name |-> sorted[i], email |-> data.email,
                 hours |-> toFixed1(data.hours, 60), entries |-> data.entries,
                 hoursPerMonth |-> toFixed1(data.hours, 60 * a.summary.monthsAnalyzed),
                 maintenance |-> toFixed1(data.workTypes["Support & Maintenance"].hours, 60),
                 professional |-> toFixed1(data.workTypes["Professional Services"].hours, 60)]]

\* generateSummaryReport: the report, section by section; hours in tenths
generateSummaryReport(a) ==
    LET monthlyNeeded == a.capacity.avgHoursNeededPerMonth
    IN  [title |-> "summary",
         keyMetrics |->
             [periodStart |-> sowStartDate, periodEnd |-> TeamToday,
              actualUsage |-> a.capacity.actualTotalUsed,
              utilization |-> a.capacity.actualUtilization,
              logDataAvailable |-> toFixed1(a.summary.totalHours, 60),
              monthsRemaining |-> a.capacity.monthsRemaining,
              hoursRemaining |-> a.capacity.hoursRemaining],
         capacityAnalysis |->
             [contracted |-> sowMonthlyHours,
              actualAverage |-> a.capacity.actualMonthlyAverage,
              hoursNeeded |-> a.capacity.avgHoursNeededPerMonth,
              currentPace |-> IF a.capacity.capacityStatus = "under"
                              THEN "Slightly under" ELSE "At/over"],
         keyFinding |->
             IF monthlyNeeded * 10 <= sowMonthlyHours * 90
             THEN "Room for modest growth"
             ELSE IF monthlyNeeded <= sowMonthlyHours * 10
             THEN "Operating near SOW capacity"
             ELSE "Would exceed SOW monthly capacity",
         workTypeDistribution |->
             [w \in WorkTypes |->
                 [hours |-> toFixed1(a.byWorkType[w].hours, 60),
                  percent |-> percentOf(a.byWorkType[w].hours, a.summary.totalHours)]],
         members |-> memberLines(a),
         recommendations |->
             IF monthlyNeeded * 100 <= sowMonthlyHours * 850
             THEN "Moderate Capacity Available"
             ELSE IF monthlyNeeded * 100 <= sowMonthlyHours * 950
             THEN "Limited Additional Capacity"
             ELSE "At SOW Capacity"]

\* Object.entries(byMonth).sort(): the month keys in rising order
RECURSIVE sortMonths(_)
sortMonths(S) ==
    IF S = {} THEN <<>>
    ELSE LET m == CHOOSE x \in S : \A y \in S : x <= y
         IN  <<m>> \o sortMonths(S \ {m})

\* generateDetailedReport
generateDetailedReport(a) ==
    LET sortedMonths == sortMonths(DOMAIN a.byMonth)
    IN  [title |-> "detailed",
         months |->
             [i \in DOMAIN sortedMonths |->
                 LET data == a.byMonth[sortedMonths[i]]
                 IN  [month |-> sortedMonths[i],
                      total |-> toFixed1(data.hours, 60), entries |-> data.entries,
                      maintenance |->
                          toFixed1(data.workTypes["Support & Maintenance"].hours, 60),
                      professional |->
                          toFixed1(data.workTypes["Professional Services"].hours, 60)]],
         members |-> memberLines(a)]

NoAnalysis == [summary |-> "none"]

\* the command line: the command, the start date (the SOW start when absent)
\* and the end date (null when absent)
StartDates == {sowStartDate, Date(2, 1)}
EndDates == {NullDate, Date(3, 30)}

\* main() of team-analysis.js: what it prints, and the analysis it computed
Commands == {"summary", "detailed", "both", "json", "help"}

main_team(command, startDate, endDate) ==
    LET entries == loadTeamData(startDate, endDate)
        a == analyzeTeamData(entries)
        out == CASE command = "summary" -> <<generateSummaryReport(a)>>
                 [] command = "detailed" -> <<generateDetailedReport(a)>>
                 [] command = "both" -> <<generateSummaryReport(a), generateDetailedReport(a)>>
                 [] command = "json" -> <<[title |-> "json"]>>
                 [] OTHER -> <<[title |-> "usage"]>>
    IN  IF entries = <<>>
        THEN [stdout |-> <<[title |-> "No data found"]>>,
              stderr |-> IF logsDir THEN "" ELSE "Data directory not found",
              analysis |-> NoAnalysis, exit |-> 0]
        ELSE [stdout |-> out, stderr |-> "", analysis |-> a, exit |-> 0]

\* node scripts/team-analysis.js <command> [start_date] [end_date]: node
\* compiles the script, and runs it only if that succeeds
node_team_analysis(command, startDate, endDate) ==
    LET r == IF compileScript = "ok" THEN main_team(command, startDate, endDate)
             ELSE [stdout |-> <<>>, stderr |-> "SyntaxError", analysis |-> NoAnalysis,
                   exit |-> 1]
    IN  /\ tpc = "idle"
        /\ tpc' = "done"
        /\ teamArgs' = <<command, startDate, endDate>>
        /\ teamStdout' = r.stdout
        /\ teamStderr' = r.stderr
        /\ teamExit' = r.exit
        /\ analysis' = r.analysis
        /\ UNCHANGED <<logsDir, teamFiles>>

\* number of entries in the GovHub logs
RECURSIVE totalTeamEntries(_)
totalTeamEntries(fileList) ==
    IF fileList = <<>> THEN 0 ELSE Len(Head(fileList)) + totalTeamEntries(Tail(fileList))

\* fetch-noko.sh creates the logs directory and stores what the API
\* returned for GovHub: here one more entry in a snapshot file
team_save_data(f, e) ==
    /\ tpc = "idle"
    /\ totalTeamEntries(teamFiles) < MaxTeamEntries
    /\ \A i \in DOMAIN teamFiles[f] : teamFiles[f][i].id # e.id
    /\ logsDir' = TRUE
    /\ teamFiles' = [teamFiles EXCEPT ![f] = Append(@, e)]
    /\ UNCHANGED <<tpc, teamArgs, teamStdout, teamStderr, teamExit, analysis>>

\* fetch-noko.sh when the API returned no entry: the directory and an empty
\* snapshot
team_save_empty ==
    /\ tpc = "idle"
    /\ ~logsDir
    /\ logsDir' = TRUE
    /\ UNCHANGED <<teamFiles, tpc, teamArgs, teamStdout, teamStderr, teamExit, analysis>>

TeamInit ==
    /\ logsDir = FALSE
    /\ teamFiles = [f \in 1..NumFiles |-> <<>>]
    /\ tpc = "idle"
    /\ teamArgs = <<>>
    /\ teamStdout = <<>>
    /\ teamStderr = ""
    /\ teamExit = -1
    /\ analysis = NoAnalysis

(***************************************************************************)
(* Specifications                                                          *)
(***************************************************************************)
Init == NodeInit /\ ShellInit /\ TeamInit

\* the report generator run from the command line
Next ==
    \/ \E f \in 1..NumFiles, e \in EntryPool :
           save_data(f, e) /\ UNCHANGED <<shellVars, teamVars>>
    \/ \E d \in 0..MaxDays, x \in BOOLEAN :
           main_clean_geekbot(d, x) /\ UNCHANGED <<shellVars, teamVars>>
    \/ main_clean_weekly /\ UNCHANGED <<shellVars, teamVars>>

Spec == Init /\ [][Next]_vars

\* a run of llm-geekbot.sh, the Claude process running beside it
NextShell ==
    \/ \E t, x, c, m \in BOOLEAN : sh_setup(t, x, c, m) /\ UNCHANGED teamVars
    \/ \E f \in 1..NumFiles, e \in EntryPool : sh_fetch_save(f, e) /\ UNCHANGED teamVars
    \/ \E ok \in BOOLEAN : sh_fetch_done(ok) /\ UNCHANGED teamVars
    \/ sh_generate /\ UNCHANGED teamVars
    \/ \E clip \in ClipboardOutcomes : sh_fallback(clip) /\ UNCHANGED teamVars
    \/ sh_start_claude /\ UNCHANGED teamVars
    \/ \E status \in {0, 1}, out \in {"", CLAUDE_TEXT} : claude_exit(status, out) /\ UNCHANGED teamVars
    \/ sh_poll /\ UNCHANGED teamVars
    \/ sh_sleep /\ UNCHANGED teamVars
    \/ sh_post_check /\ UNCHANGED teamVars
    \/ sh_kill /\ UNCHANGED teamVars
    \/ \E installed \in BOOLEAN, out \in {"", GEMINI_TEXT} : sh_gemini(installed, out) /\ UNCHANGED teamVars
    \/ \E clip \in ClipboardOutcomes : sh_result(clip) /\ UNCHANGED teamVars

SpecShell == Init /\ [][NextShell]_vars

\* a run of team-analysis.js over the GovHub logs
NextTeam ==
    \/ \E f \in 1..NumFiles, e \in TeamPool :
           team_save_data(f, e) /\ UNCHANGED <<nodeVars, shellVars>>
    \/ team_save_empty /\ UNCHANGED <<nodeVars, shellVars>>
    \/ \E c \in Commands, s \in StartDates, e \in EndDates :
           node_team_analysis(c, s, e) /\ UNCHANGED <<nodeVars, shellVars>>

SpecTeam == Init /\ [][NextTeam]_vars

\* the entries the snapshots hold when sources go bad: of '[LSM]' projects
\* without and with an Internal tag, and of department buckets with a sales
\* tag and without one
InputPool == {e \in EntryPool : e.id \in {1, 2, 4, 5}}

\* the report generator run over sources of which some cannot be used
NextInput ==
    \/ \E f \in 1..NumFiles, e \in InputPool :
           save_data(f, e) /\ UNCHANGED <<shellVars, teamVars>>
    \/ \E f \in 1..NumFiles, kind \in {"invalidJSON", "notArray"} :
           save_bad_response(f, kind) /\ UNCHANGED <<shellVars, teamVars>>
    \/ \E f \in 1..NumFiles, kind \in {"missing", "unreadable", "noLogsDir"} :
           lose_source(f, kind) /\ UNCHANGED <<shellVars, teamVars>>
    \/ \E d \in 0..MaxDays, x \in BOOLEAN :
           main_clean_geekbot(d, x) /\ UNCHANGED <<shellVars, teamVars>>
    \/ main_clean_weekly /\ UNCHANGED <<shellVars, teamVars>>

SpecInput == Init /\ [][NextInput]_vars

(***************************************************************************)
(* Helpers of the properties                                               *)
(***************************************************************************)
Range(s) == {s[i] : i \in DOMAIN s}

\* the bag of the elements of a sequence
BagOfSeq(s) == [x \in Range(s) |-> Cardinality({i \in DOMAIN s : s[i] = x})]

\* every entry of every bucket, bucket after bucket
allBucketed(cats) ==
    LET keys == SortKeys(DOMAIN cats.clientProjects)
        RECURSIVE clients(_)
        clients(ks) ==
            IF ks = <<>> THEN <<>> ELSE cats.clientProjects[Head(ks)] \o clients(Tail(ks))
    IN  clients(keys) \o cats.lsm \o cats.internal \o cats.other

\* the entries of the target user that the run handed to the classifier
targetEntries == SelectSeq(filteredEntries, LAMBDA e : e.user.id = USER_ID)

geekbotDone == pc = "done" /\ reportType = "geekbot"

\* the buckets, as sets of entries
inClient(e) == \E k \in DOMAIN categories.clientProjects : e \in Range(categories.clientProjects[k])
inLsm(e) == e \in Range(categories.lsm)
inInternal(e) == e \in Range(categories.internal)
inOther(e) == e \in Range(categories.other)

isDepartmentId(id) ==
    id \in {specialBuckets.lsm, specialBuckets.drainpipe, specialBuckets.lullabotdotcom}

\* the text the run would have returned with the other value of the flag
rawDataWith(exclude) ==
    generateRawDataForLLM(<<Source("array", allEntries)>>, Today, days, reportType,
                          exclude).rawData

(***************************************************************************)
(* C1: classification is total and exclusive: the buckets together hold    *)
(* every in-range entry of the target user exactly once, and nothing else. *)
(***************************************************************************)
C1_TotalExclusive ==
    geekbotDone => BagOfSeq(allBucketed(categories)) = BagOfSeq(targetEntries)

\* a run that classified two entries of the target user into two buckets
C1_Witness ==
    /\ geekbotDone
    /\ Len(targetEntries) >= 2
    /\ Cardinality({classifyEntry(targetEntries[i]).bucket : i \in DOMAIN targetEntries}) >= 2
    /\ Len(allBucketed(categories)) >= 2

dedupById(entries) ==
    LET keep == {i \in DOMAIN entries :
                    \A j \in DOMAIN entries : entries[j].id = entries[i].id => i <= j}
        RECURSIVE pick(_)
        pick(i) ==
            IF i > Len(entries) THEN <<>>
            ELSE (IF i \in keep THEN <<entries[i]>> ELSE <<>>) \o pick(i + 1)
    IN  pick(1)

C3_DedupById ==
    geekbotDone =>
        rawData = generateRawDataForLLM(<<Source("array", dedupById(allEntries))>>, Today,
                                        days, "geekbot", excludeInternal).rawData

(***************************************************************************)
(* C4: excludeInternal removes the Internal section (its header and its    *)
(* entry lines) and nothing else: the text with the flag is the text       *)
(* without the flag with that one block cut out, and no entry of the       *)
(* Internal bucket is printed under another header.                        *)
(***************************************************************************)
internalBlock ==
    IF categories.internal = <<>> THEN <<>>
    ELSE <<headerLine(HDR_Internal)>>
         \o [i \in DOMAIN categories.internal |-> entryLine(categories.internal[i])]

C4_ExcludeOnlyInternal ==
    geekbotDone =>
        LET with == IF excludeInternal THEN rawData ELSE rawDataWith(TRUE)
            without == IF excludeInternal THEN rawDataWith(FALSE) ELSE rawData
        IN  /\ \E i \in 0..Len(with) :
                   without = SubSeq(with, 1, i) \o internalBlock
                                 \o SubSeq(with, i + 1, Len(with))
            /\ \A j \in DOMAIN categories.internal, k \in DOMAIN with :
                   with[k].kind = "entry"
                       => with[k].description # categories.internal[j].description

\* a run with the flag set that dropped an Internal entry and kept others
C4_Witness ==
    /\ geekbotDone
    /\ excludeInternal
    /\ categories.internal # <<>>
    /\ rawData # <<>>
    /\ rawDataWith(FALSE) # rawData


headerOf(e) ==
    LET c == classifyEntry(e)
    IN  CASE c.bucket = "clientProjects" -> [rank |-> 1, key |-> c.key]
          [] c.bucket = "lsm" -> [rank |-> 2, key |-> HDR_LSM]
          [] c.bucket = "internal" -> [rank |-> 3, key |-> HDR_Internal]
          [] OTHER -> [rank |-> 4, key |-> otherGroupName(e)]

printedEntries ==
    SelectSeq(targetEntries, LAMBDA e : ~(excludeInternal /\ headerOf(e).rank = 3))

\* the section headers of the text, each with its rank
headersOf(text) ==
    LET hs == SelectSeq(text, LAMBDA l : l.kind = "header")
    IN  [i \in DOMAIN hs |->
            CHOOSE h \in {headerOf(printedEntries[j]) : j \in DOMAIN printedEntries} :
                h.key = hs[i].key]

\* the lines between the i-th header of the text and the next one
linesUnder(text, i) ==
    LET at == {k \in DOMAIN text : text[k].kind = "header"}
        start == CHOOSE k \in at : Cardinality({j \in at : j <= k}) = i
        stop == IF \E k \in at : k > start
                THEN (CHOOSE k \in at : k > start /\ \A j \in at : j > start => k <= j) - 1
                ELSE Len(text)
    IN  SubSeq(text, start + 1, stop)

\* a <= b when names are compared as a dictionary does, letter case ignored
AlphabeticalLeq(a, b) == ~CodeUnitLess(ToLowerCase(b), ToLowerCase(a))

\* a < b in UTF-16 code-unit order
CodeUnitBefore(a, b) == CodeUnitLess(a, b)

sectionOrder(byCodeUnit) ==
    LET hs == headersOf(rawData)
        inOrder(a, b) == IF byCodeUnit THEN CodeUnitBefore(a, b) ELSE AlphabeticalLeq(a, b)
    IN  \* every printed entry has its header, and every header has entries
        /\ {hs[i] : i \in DOMAIN hs} = {headerOf(printedEntries[j]) : j \in DOMAIN printedEntries}
        \* ranks ascend; within the client and the other sections, names ascend
        /\ \A i, j \in DOMAIN hs :
               i < j => /\ hs[i].rank <= hs[j].rank
                        /\ hs[i].rank = hs[j].rank => inOrder(hs[i].key, hs[j].key)
        \* under each header, its entries in read order
        /\ \A i \in DOMAIN hs :
               linesUnder(rawData, i) =
                   entryLines(SelectSeq(printedEntries, LAMBDA e : headerOf(e) = hs[i]))

\* C10 as stated: names in alphabetical order
C10_AlphabeticalSections ==
    geekbotDone => sectionOrder(FALSE)

\* C10 amended: names in ascending UTF-16 code-unit order, the order of
\* sort() without a comparator (every upper-case letter before every
\* lower-case letter)
C10_CodeUnitSections ==
    geekbotDone => sectionOrder(TRUE)

\* a text with two sections of one kind, printed in code-unit order where
\* the alphabetical order is the opposite one
C10_Witness ==
    /\ geekbotDone
    /\ LET hs == headersOf(rawData)
       IN  \E i, j \in DOMAIN hs :
               /\ i < j
               /\ hs[i].rank = hs[j].rank
               /\ CodeUnitBefore(hs[i].key, hs[j].key)
               /\ ~AlphabeticalLeq(hs[i].key, hs[j].key)


(***************************************************************************)
(* C6: an empty result is a signalled non-error outcome: when no entry     *)
(* survives the filters the generator returns the empty text, the command  *)
(* prints 'No entries found', and the script emits its fallback response   *)
(* and exits 0 without starting Claude or Gemini.                          *)
(***************************************************************************)
C6_EmptyResultSignalled ==
    (spc = "exit" /\ pc = "done" /\ printedEntries = <<>>) =>
        /\ rawData = <<>>
        /\ Len(stdout) = 1 /\ stdout[1].kind = "text" /\ stdout[1].key = MSG_NoEntries
        /\ invoked = <<>>
        /\ "fallback" \in shown
        /\ exitCode = 0

C8_NoFatalOutcome ==
    (spc = "exit" /\ claude # "none") => ("formatted" \in shown \/ "raw" \in shown)

(***************************************************************************)
(* C9: a failure of Claude, not only a hang, reaches the fallback: when    *)
(* Claude exits with an error or with empty output inside the window, the  *)
(* script invokes Gemini before it gives up.                               *)
(***************************************************************************)
C9_FallbackOnFailure ==
    (spc = "exit" /\ claude = "exited" /\ polls < 10
        /\ (claudeStatus # 0 \/ claudeOut = ""))
        => \E i \in DOMAIN invoked : invoked[i] = "gemini"

(***************************************************************************)
(* C11: the Client Project display name.  The name of the project with its *)
(* leading "[LSM]" stripped is matched against the configured short-names. *)
(***************************************************************************)
\* the project name with its leading "[LSM]" and the blanks around it removed
strippedName(e) ==
    LET n == e.project.name
    IN  Trim(IF StartsWith(n, LSM_MARK) THEN SubSeq(n, Len(LSM_MARK) + 1, Len(n)) ELSE n)

\* short-name p contains the stripped name or is contained in it, case ignored
containsEitherWay(p, clean) ==
    \/ Includes(ToLowerCase(clean), ToLowerCase(p))
    \/ Includes(ToLowerCase(p), ToLowerCase(clean))

\* the abbreviations the classifier knows: DH for Dartmouth, GovHub for Georgia
abbreviates(p, clean) ==
    \/ ToLowerCase(p) = STR_dh /\ Includes(ToLowerCase(clean), STR_dartmouth)
    \/ ToLowerCase(p) = STR_govhub /\ Includes(ToLowerCase(clean), STR_georgia)

\* the entries of the target user whose project name contains "[LSM]"
markedEntries == SelectSeq(targetEntries, LAMBDA e : Includes(e.project.name, LSM_MARK))

\* the display name the claim derives for a marked entry: the first
\* configured short-name, in configuration order, that contains the stripped
\* name or is contained in it (with abbreviations: or abbreviates it), else
\* the text before the first space of the stripped name
derivedName(e, withAbbreviations) ==
    LET clean == strippedName(e)
        hits == {i \in DOMAIN CONFIG_projects :
                    \/ containsEitherWay(CONFIG_projects[i], clean)
                    \/ withAbbreviations /\ abbreviates(CONFIG_projects[i], clean)}
    IN  IF hits = {} THEN FirstWord(clean)
        ELSE CONFIG_projects[CHOOSE i \in hits : \A j \in hits : i <= j]

\* every marked entry is in the bucket of its derived name and of no other,
\* and the text has one header of that name, the lines of the bucket below it
displayNameIs(withAbbreviations) ==
    /\ DOMAIN categories.clientProjects =
           {derivedName(markedEntries[i], withAbbreviations) : i \in DOMAIN markedEntries}
    /\ \A i \in DOMAIN markedEntries :
           LET e == markedEntries[i]
           IN  \A k \in DOMAIN categories.clientProjects :
                   e \in Range(categories.clientProjects[k])
                       <=> k = derivedName(e, withAbbreviations)
    /\ \A k \in DOMAIN categories.clientProjects :
           LET at == {j \in DOMAIN rawData : rawData[j] = headerLine(k)}
           IN  /\ Cardinality(at) = 1
               /\ \A j \in at :
                      SubSeq(rawData, j + 1, j + Len(categories.clientProjects[k]))
                          = entryLines(categories.clientProjects[k])

leftOverEntries ==
    SelectSeq(targetEntries, LAMBDA e :
        /\ ~Includes(e.project.name, LSM_MARK)
        /\ ~hasInternalTag(e)
        /\ e.project.id # specialBuckets.internal)

rawProjectName(e) == IF e.project.name = <<>> THEN HDR_Uncategorized ELSE e.project.name

\* the line of e stands in the section opened by a header of name key
printedUnder(e, key) ==
    \E j, k \in DOMAIN rawData :
        /\ j < k
        /\ rawData[j] = headerLine(key)
        /\ rawData[k] = entryLine(e)
        /\ \A m \in (j + 1)..k : rawData[m].kind = "entry"

C12_DepartmentAndOther ==
    geekbotDone =>
        \A i \in DOMAIN leftOverEntries :
            LET e == leftOverEntries[i]
            IN  /\ inLsm(e) <=> isDepartmentId(e.project.id)
                /\ inOther(e) <=> ~isDepartmentId(e.project.id)
                /\ ~inClient(e) /\ ~inInternal(e)
                /\ ~isDepartmentId(e.project.id) => printedUnder(e, rawProjectName(e))

\* a run that put an entry of the lullabotdotcom bucket in LSM and printed
\* an entry without a project under 'Uncategorized'
C12_Witness ==
    /\ geekbotDone
    /\ \E i \in DOMAIN leftOverEntries :
           /\ leftOverEntries[i].project.id = specialBuckets.lullabotdotcom
           /\ inLsm(leftOverEntries[i])
    /\ \E i \in DOMAIN leftOverEntries :
           /\ leftOverEntries[i].project = NoProject
           /\ inOther(leftOverEntries[i])
           /\ printedUnder(leftOverEntries[i], HDR_Uncategorized)

(***************************************************************************)
(* C13: the geekbot report is user-specific: every bucketed entry and      *)
(* every entry line of the text belongs to an entry read from the files    *)
(* whose user.id is the target user id; no entry of another user appears.  *)
(***************************************************************************)
C13_UserSpecific ==
    geekbotDone =>
        /\ \A i \in DOMAIN allBucketed(categories) :
               allBucketed(categories)[i].user.id = USER_ID
        /\ \A k \in DOMAIN rawData :
               rawData[k].kind = "entry" =>
                   /\ \E i \in DOMAIN allEntries :
                          allEntries[i].user.id = USER_ID /\ rawData[k] = entryLine(allEntries[i])
                   /\ \A i \in DOMAIN allEntries :
                          allEntries[i].user.id # USER_ID
                              => rawData[k].description # allEntries[i].description

\* a run over an in-range entry of another user and an entry of the target
\* user, which printed the latter
C13_Witness ==
    /\ geekbotDone
    /\ \E i \in DOMAIN filteredEntries : filteredEntries[i].user.id # USER_ID
    /\ \E k \in DOMAIN rawData : rawData[k].kind = "entry"

(***************************************************************************)
(* C14: formatTime.  The duration of every printed entry of m minutes is   *)
(* 'Nm' with N = m when m < 60 (also for 0), 'Nh' with 60*N = m when m is   *)
(* a positive multiple of 60, else 'Nh Mm' with 60*N + M = m, 0 < M < 60.  *)
(***************************************************************************)
durationOf(m, t) ==
    \/ m < 60 /\ t = <<m, "m">>
    \/ \E N \in 1..m : 60 * N = m /\ t = <<N, "h">>
    \/ \E N \in 1..m, M \in 1..59 : 60 * N + M = m /\ t = <<N, "h", M, "m">>

C14_FormatTime ==
    pc = "done" =>
        \A k \in DOMAIN rawData :
            rawData[k].kind = "entry" =>
                \E i \in DOMAIN allEntries :
                    /\ allEntries[i].description = rawData[k].description
                    /\ durationOf(allEntries[i].minutes, rawData[k].time)

\* a text with a line of 0 minutes, printed '0m', and a line of 125
\* minutes, printed '2h 5m'
C14_Witness ==
    /\ pc = "done"
    /\ \E k \in DOMAIN rawData : rawData[k].kind = "entry" /\ rawData[k].time = <<0, "m">>
    /\ \E k \in DOMAIN rawData :
           rawData[k].kind = "entry" /\ rawData[k].time = <<2, "h", 5, "m">>

(***************************************************************************)
(* Helpers of the properties of team-analysis.js                           *)
(***************************************************************************)
teamDone == tpc = "done"

\* the entries of the logs that lie in the date range of the run
inRangeTeamEntries ==
    IF ~logsDir THEN <<>>
    ELSE SelectSeq(concatFiles(teamFiles), LAMBDA e :
             /\ DateLeq(teamArgs[2], e.date)
             /\ DateLeq(e.date, IF teamArgs[3] = NullDate THEN TeamToday ELSE teamArgs[3]))

\* the sum of the minutes of a list of entries
RECURSIVE sumMinutes(_)
sumMinutes(entries) ==
    IF entries = <<>> THEN 0 ELSE Head(entries).minutes + sumMinutes(Tail(entries))

\* the sum of f over its domain
RECURSIVE sumOver(_)
sumOver(f) ==
    IF DOMAIN f = {} THEN 0
    ELSE LET x == CHOOSE y \in DOMAIN f : TRUE
         IN  f[x] + sumOver([y \in DOMAIN f \ {x} |-> f[y]])

\* some tag name contains a category label, or the description contains an
\* initiative keyword, letter case ignored
isProfessional(e) ==
    \/ \E i \in DOMAIN e.tags, j \in DOMAIN professionalTags :
           Includes(ToLowerCase(e.tags[i].name), ToLowerCase(professionalTags[j]))
    \/ \E j \in DOMAIN professionalKeywords :
           Includes(ToLowerCase(e.description), ToLowerCase(professionalKeywords[j]))

\* the run printed a summary report first
summaryPrinted ==
    /\ teamStdout # <<>>
    /\ teamStdout[1].title = "summary"

(***************************************************************************)
(* C15: work-type categorization is exhaustive and exclusive.  A run over  *)
(* a corpus with entries in range gives every entry exactly one of the two *)
(* work types: 'Professional Services' iff a tag or the description        *)
(* matches, 'Support & Maintenance' otherwise (also without tags or        *)
(* description), so the two tallies count the two kinds of entries.        *)
(***************************************************************************)
C15_WorkTypePartition ==
    (teamDone /\ inRangeTeamEntries # <<>>) =>
        /\ analysis # NoAnalysis
        /\ DOMAIN analysis.byWorkType = WorkTypes
        /\ analysis.byWorkType["Professional Services"].entries =
               Len(SelectSeq(inRangeTeamEntries, isProfessional))
        /\ analysis.byWorkType["Support & Maintenance"].entries =
               Len(SelectSeq(inRangeTeamEntries, LAMBDA e : ~isProfessional(e)))

(***************************************************************************)
(* C16: aggregation conserves hours and counts.  After the fold, the total *)
(* hours are the sum of the entries' minutes / 60 and equal the sum over   *)
(* the members, over the two work types and over the months; likewise the  *)
(* entry counts; every member and every month is the sum of its two        *)
(* work-type splits; the month keys are the year-months of the dates.      *)
(***************************************************************************)
C16_Conservation ==
    (teamDone /\ inRangeTeamEntries # <<>>) =>
        /\ analysis # NoAnalysis
        /\ LET a == analysis
               total == sumMinutes(inRangeTeamEntries)
               count == Len(inRangeTeamEntries)
               split(t) == [hours |-> sumOver([w \in WorkTypes |-> t.workTypes[w].hours]),
                            entries |-> sumOver([w \in WorkTypes |-> t.workTypes[w].entries])]
           IN  /\ a.summary.totalHours = total
               /\ a.summary.totalEntries = count
               /\ sumOver([n \in DOMAIN a.byTeamMember |-> a.byTeamMember[n].hours]) = total
               /\ sumOver([n \in DOMAIN a.byTeamMember |-> a.byTeamMember[n].entries]) = count
               /\ sumOver([w \in WorkTypes |-> a.byWorkType[w].hours]) = total
               /\ sumOver([w \in WorkTypes |-> a.byWorkType[w].entries]) = count
               /\ sumOver([m \in DOMAIN a.byMonth |-> a.byMonth[m].hours]) = total
               /\ sumOver([m \in DOMAIN a.byMonth |-> a.byMonth[m].entries]) = count
               /\ \A n \in DOMAIN a.byTeamMember :
                      split(a.byTeamMember[n]) =
                          [hours |-> a.byTeamMember[n].hours,
                           entries |-> a.byTeamMember[n].entries]
               /\ \A m \in DOMAIN a.byMonth :
                      split(a.byMonth[m]) =
                          [hours |-> a.byMonth[m].hours, entries |-> a.byMonth[m].entries]
               /\ DOMAIN a.byMonth =
                      {inRangeTeamEntries[i].date.ym : i \in DOMAIN inRangeTeamEntries}

\* months of the SOW elapsed on the run date, and the hours budgeted for them
monthsElapsed == TeamToday.ym - sowStartDate.ym + 1
expectedHours == sowMonthlyHours * monthsElapsed

\* total entry hours / expectedHours * 100, in tenths of a percent
utilizationOfEntries == toFixed1(sumMinutes(inRangeTeamEntries) * 100, 60 * expectedHours)

(***************************************************************************)
(* C17: utilization comes from the analysed entries: the summary reports   *)
(* total entry hours / (200 x months analysed) x 100, so a corpus summing  *)
(* to exactly the elapsed budget is reported as 100.0.                     *)
(***************************************************************************)
C17_UtilizationFromEntries ==
    (teamDone /\ inRangeTeamEntries # <<>> /\ teamArgs[1] \in {"summary", "both"}) =>
        /\ summaryPrinted
        /\ teamStdout[1].keyMetrics.utilization = utilizationOfEntries
        /\ sumMinutes(inRangeTeamEntries) = 60 * expectedHours
               => teamStdout[1].keyMetrics.utilization = 1000

(***************************************************************************)
(* C18: the remaining capacity the summary reports is expectedHours minus  *)
(* the total hours of the analysed entries.                                *)
(***************************************************************************)
C18_RemainingFromEntries ==
    (teamDone /\ inRangeTeamEntries # <<>> /\ teamArgs[1] \in {"summary", "both"}) =>
        /\ summaryPrinted
        \* hoursRemaining is in hundredths of an hour, the minutes in sixtieths
        /\ 60 * teamStdout[1].keyMetrics.hoursRemaining =
               100 * (60 * expectedHours - sumMinutes(inRangeTeamEntries))

(***************************************************************************)
(* C19: the recommendation follows the utilization of the analysed         *)
(* entries: a corpus at or above 100% of the elapsed budget gets the       *)
(* at-capacity text, a corpus in the low band the capacity-available text, *)
(* and a corpus in between neither of the two.                             *)
(***************************************************************************)
C19_RecommendationByBand ==
    (teamDone /\ inRangeTeamEntries # <<>> /\ teamArgs[1] \in {"summary", "both"}) =>
        /\ summaryPrinted
        /\ teamStdout[1].recommendations = "At SOW Capacity"
               <=> utilizationOfEntries >= 1000
        /\ teamStdout[1].recommendations = "Moderate Capacity Available"
               <=> utilizationOfEntries <= 850

(***************************************************************************)
(* C20: the no-data outcome.  When the log directory is absent or no entry *)
(* lies in the date range, the run prints 'No data found' and nothing      *)
(* else, computes no analysis, and ends normally.                          *)
(***************************************************************************)
C20_NoDataOutcome ==
    (teamDone /\ inRangeTeamEntries = <<>>) =>
        /\ teamStdout = <<[title |-> "No data found"]>>
        /\ analysis = NoAnalysis
        /\ teamExit = 0

\* the entries of a list that a member logged, that have a work type, that
\* lie in a month
entriesOfMember(entries, name) == SelectSeq(entries, LAMBDA e : userName(e) = name)
entriesOfWorkType(entries, w) ==
    SelectSeq(entries, LAMBDA e : (IF isProfessional(e) THEN "Professional Services"
                                   ELSE "Support & Maintenance") = w)
entriesOfMonth(entries, m) == SelectSeq(entries, LAMBDA e : e.date.ym = m)

\* the calendar year and month of a date
yearOf(date) == 2025 + (date.ym \div 12)
monthOf(date) == (date.ym % 12) + 1

\* the reports a run printed
reportsPrinted ==
    {i \in DOMAIN teamStdout : teamStdout[i].title \in {"summary", "detailed"}}

(***************************************************************************)
(* C21: months analysed depends only on the contract start date and the    *)
(* run date: it is 12 x (current year - start year) + (current month -     *)
(* start month) + 1 whatever date range was requested, and every member's  *)
(* monthly average in the reports is the member's hours divided by it.     *)
(***************************************************************************)
C21_MonthsAnalyzed ==
    (teamDone /\ inRangeTeamEntries # <<>>) =>
        LET months == 12 * (yearOf(TeamToday) - yearOf(sowStartDate))
                          + (monthOf(TeamToday) - monthOf(sowStartDate)) + 1
        IN  /\ analysis # NoAnalysis
            /\ analysis.summary.monthsAnalyzed = months
            /\ teamArgs[1] \in {"summary", "detailed", "both"} =>
                   /\ reportsPrinted # {}
                   /\ \A i \in reportsPrinted :
                          \A k \in DOMAIN teamStdout[i].members :
                              LET line == teamStdout[i].members[k]
                              IN  line.hoursPerMonth =
                                      toFixed1(sumMinutes(entriesOfMember(inRangeTeamEntries,
                                                                          line.name)),
                                               60 * months)

(***************************************************************************)
(* C22: the aggregator counts each logged entry once.  An id that several  *)
(* snapshot files hold adds its minutes and its count once to the total,   *)
(* to its member, to its work type and to its month.                       *)
(***************************************************************************)
C22_CountedOnce ==
    (teamDone /\ inRangeTeamEntries # <<>>) =>
        LET once == dedupById(inRangeTeamEntries)
            tallies(t, entries) ==
                t.hours = sumMinutes(entries) /\ t.entries = Len(entries)
        IN  /\ analysis # NoAnalysis
            /\ analysis.summary.totalHours = sumMinutes(once)
            /\ analysis.summary.totalEntries = Len(once)
            /\ \A n \in DOMAIN analysis.byTeamMember :
                   tallies(analysis.byTeamMember[n], entriesOfMember(once, n))
            /\ \A w \in WorkTypes :
                   tallies(analysis.byWorkType[w], entriesOfWorkType(once, w))
            /\ \A m \in DOMAIN analysis.byMonth :
                   tallies(analysis.byMonth[m], entriesOfMonth(once, m))

(***************************************************************************)
(* C29: every number of a generated report is finite.  A run over a corpus *)
(* with entries in range prints its report, and no percentage of the work  *)
(* type distribution is NaN, also when every entry in range has 0 minutes. *)
(***************************************************************************)
C29_FiniteNumbers ==
    (teamDone /\ inRangeTeamEntries # <<>> /\ teamArgs[1] \in {"summary", "both"}) =>
        /\ summaryPrinted
        /\ \A w \in WorkTypes : ~teamStdout[1].workTypeDistribution[w].percent.nan
        /\ analysis.summary.monthsAnalyzed > 0

(***************************************************************************)
(* Helpers of the properties of llm-geekbot.sh                             *)
(***************************************************************************)
\* the script has ended, and it had started Claude
endedAfterClaude == spc = "exit" /\ claude # "none"

\* Claude ended by itself, successfully and with output, before any kill
claudeSucceeded == claude = "exited" /\ claudeStatus = 0 /\ claudeOut # ""

(***************************************************************************)
(* C26: the daily update covers yesterday and today.  On a run that is not *)
(* on a Monday the data generated for the model holds only entries dated   *)
(* yesterday or today, none dated two or more days before the run date.    *)
(***************************************************************************)
C26_YesterdayAndToday ==
    (spc \notin {"start", "fetch", "generate"} /\ DAYS_BACK # 4) =>
        \A k \in DOMAIN RAW_DATA :
            RAW_DATA[k].kind = "entry" => RAW_DATA[k].date \in {Today - 1, Today}

(***************************************************************************)
(* C27: a successful Claude result is never lost to the timeout race.      *)
(* When the script has ended and Claude had exited by itself with status 0 *)
(* and non-empty output, that output is RESULT and is what the script      *)
(* presented: it did not fall back to the raw data.                        *)
(***************************************************************************)
C27_ResultNotLost ==
    (spc = "exit" /\ claudeSucceeded) =>
        /\ RESULT = claudeOut
        /\ "raw" \notin shown
        /\ clipboard \in {"", claudeOut}

(***************************************************************************)
(* C30: the temporary Claude output file is always cleaned up.  Whenever   *)
(* the script has ended after it started the Claude background process,    *)
(* the file no longer exists.                                              *)
(***************************************************************************)
C30_TempFileRemoved ==
    endedAfterClaude => tempOutput = "absent"

(***************************************************************************)
(* Helpers of the properties of the weekly report                          *)
(***************************************************************************)
weeklyDone == pc = "done" /\ reportType = "weekly"

\* a tag of the entry contains 'internal' or 'sales', letter case ignored
taggedInternalOrSales(e) ==
    \E i \in DOMAIN e.tags :
        \/ Includes(ToLowerCase(e.tags[i].name), STR_internal)
        \/ Includes(ToLowerCase(e.tags[i].name), STR_sales)

\* the project name of the entry contains '[LSM]'
namedLsm(e) == Includes(e.project.name, LSM_MARK)

\* the text holds the line of the entry
hasLineOf(text, e) == \E k \in DOMAIN text : text[k] = entryLine(e)

(***************************************************************************)
(* C24: the weekly report data covers the whole team.  The data of a       *)
(* weekly run holds the line of every LSM entry in the 7-day range, of     *)
(* every team member and not only of the user NOKO_USER_ID.                *)
(***************************************************************************)
C24_WholeTeam ==
    weeklyDone =>
        \A i \in DOMAIN filteredEntries :
            LET e == filteredEntries[i]
            IN  (namedLsm(e) \/ ~taggedInternalOrSales(e)) => hasLineOf(rawData, e)

(***************************************************************************)
(* C25: internal and sales entries are excluded from LSM reports.          *)
(* filterLsmEntries never returns an entry with a tag that contains        *)
(* 'internal' or 'sales', whatever its project name, so the weekly data    *)
(* holds the line of no such entry.                                        *)
(***************************************************************************)
C25_NoInternalOrSales ==
    weeklyDone =>
        LET lsmEntries == filterLsmEntries(filteredEntries)
        IN  /\ \A i \in DOMAIN lsmEntries : ~taggedInternalOrSales(lsmEntries[i])
            /\ \A i \in DOMAIN filteredEntries :
                   taggedInternalOrSales(filteredEntries[i])
                       => ~hasLineOf(rawData, filteredEntries[i])

usableSources ==
    SelectSeq(sourcesOf(files, fileKind), LAMBDA source : source.kind = "array")

\* the paths that are not
badFiles == {f \in DOMAIN fileKind : fileKind[f] # "array"}

(***************************************************************************)
(* C23: a bad input source is not fatal.  A log file that is missing,      *)
(* unreadable, not JSON or not a JSON array, and a project without logs    *)
(* directory, add no entry, and the run goes on: it ends with the output   *)
(* it gives for the same corpus without that source.                       *)
(***************************************************************************)
C23_BadSourceSkipped ==
    pc = "done" =>
        LET without == generateRawDataForLLM(usableSources, Today, days, reportType,
                                             excludeInternal)
        IN  /\ allEntries = without.allEntries
            /\ rawData = without.rawData
            /\ stdout = consoleLog(without.rawData)
            /\ \A f \in badFiles :
                   \A i \in DOMAIN files[f] :
                       files[f][i] \in Range(allEntries)
                           => \E g \in DOMAIN files \ badFiles :
                                  files[f][i] \in Range(files[g])

\* a run over an unusable source that holds an entry, next to a usable one,
\* printed the entry of the usable one only
C23_Witness ==
    /\ pc = "done"
    /\ \E f \in badFiles, g \in DOMAIN files \ badFiles :
           /\ files[f] # <<>>
           /\ files[g] # <<>>
           /\ \E i \in DOMAIN files[g] : hasLineOf(rawData, files[g][i])
           /\ \A i \in DOMAIN files[f] : ~hasLineOf(rawData, files[f][i])

====
